---- MODULE Spec2Model ----
(***************************************************************************)
(* Ownership-scoped establishment store: the tRPC establishment router     *)
(* (list, getById, create, update, delete) behind protectedProcedure, over *)
(* the establishments and subscriptions tables of the Drizzle schema.      *)
(*                                                                         *)
(* Strings are sequences of one-character strings, so that length checks,  *)
(* regular expressions and toUpperCase are computed and not assumed.       *)
(* Every storage statement is atomic; update and delete are two statements *)
(* (ownership select, then write) that other requests may interleave.      *)
(* Storage statements succeed unless a column constraint rejects the       *)
(* values (Spec models normal operation of the storage layer).             *)
(***************************************************************************)
EXTENDS Integers, Sequences, FiniteSets, TLC

(* establishments, subscriptions: the two tables, as sets of rows.          *)
(* pending: update and delete requests that passed their ownership select  *)
(*          and have not yet issued their write.                           *)
(* now: the clock read by defaultNow() and new Date().                     *)
(* usedIds: identifiers defaultRandom() has issued; a generated UUID is    *)
(*          taken never to repeat one issued before.                       *)
(* resp: the response of the request that has just completed (NoResp when  *)
(*       none is waiting to be sent).                                      *)
(* createdBy, deleted: history of the run: the caller whose create         *)
(*       inserted each id, and the ids whose delete returned success.      *)
(* sink: the telemetry calls (breadcrumbs, captured exceptions) made by    *)
(*       the request that has just completed.                              *)
(* req: history of the run: the payload of the request that has just       *)
(*      completed, as the caller sent it.                                  *)
(* client: the browser side: the selection state of EstablishmentProvider *)
(*      (in memory and in localStorage, with the history of what was set), *)
(*      the list query of the query client, and the add form.              *)
VARIABLES establishments, subscriptions, pending, now, usedIds, resp,
          createdBy, deleted, sink, req, client

vars == <<establishments, subscriptions, pending, now, usedIds, resp,
          createdBy, deleted, sink, req, client>>

server == <<establishments, subscriptions, pending, now, usedIds, resp,
            createdBy, deleted, sink, req>>

----------------------------------------------------------------------------
(* Bounds *)

MaxIds == 2
MaxTime == 1
MaxPending == 2
MaxSubs == 1

----------------------------------------------------------------------------
(* Values *)

Users == {"user_1", "user_2"}
NoUser == "null"
Callers == Users \cup {NoUser}

Ids == 1..MaxIds
BadId == 0
SubIds == 1..MaxSubs
Times == 0..MaxTime

Null == <<"NULL">>

(* A number n is the pair hi, lo with n = hi * 2^31 + lo and 0 <= lo < 2^31, *)
(* so that values beyond the 32-bit integer column can be written.          *)
Number(hi, lo) == [hi |-> hi, lo |-> lo]

(* A number that is not an integer carries its fractional part as well.    *)
Fraction(hi, lo, frac) == [hi |-> hi, lo |-> lo, frac |-> frac]

IsInt(v) == "frac" \notin DOMAIN v

UnauthorizedMsg == "You must be signed in to perform this action"
NotFoundMsg == "Establishment not found or you do not have access"
ValidationMsg == "Input validation failed"
CreateFailedMsg == "Failed to create establishment"
UpdateFailedMsg == "Failed to update establishment"
ListFailedMsg == "Failed to fetch establishments"
GetFailedMsg == "Failed to fetch establishment"
DeleteFailedMsg == "Failed to delete establishment"

(* The message of the error the storage engine raises when a value does    *)
(* not fit its column.                                                     *)
ConstraintMsg == "value out of range for column type"

NoCause == "null"

SchemaKeys == {"name", "address", "city", "state", "zipCode", "naicsCode",
               "industryDescription", "averageEmployees"}
RequiredKeys == {"name", "address", "city", "state", "zipCode",
                 "averageEmployees"}

----------------------------------------------------------------------------
(* Strings *)

Digits == {"0", "1", "2", "3", "4", "5", "6", "7", "8", "9"}
Lower == <<"a", "b", "c", "d", "e", "f", "g", "h", "i", "j", "k", "l", "m",
           "n", "o", "p", "q", "r", "s", "t", "u", "v", "w", "x", "y", "z">>
Upper == <<"A", "B", "C", "D", "E", "F", "G", "H", "I", "J", "K", "L", "M",
           "N", "O", "P", "Q", "R", "S", "T", "U", "V", "W", "X", "Y", "Z">>

IsDigits(s) == \A i \in 1..Len(s) : s[i] \in Digits

UpperOf(c) ==
    IF \E i \in 1..26 : Lower[i] = c
    THEN <<Upper[CHOOSE i \in 1..26 : Lower[i] = c]>>
    ELSE IF c = "ß" THEN <<"S", "S">> ELSE <<c>>

RECURSIVE ToUpperCase(_)
ToUpperCase(s) ==
    IF s = <<>> THEN <<>> ELSE UpperOf(Head(s)) \o ToUpperCase(Tail(s))

ZipRegex_Unanchored(s) == Len(s) >= 5 /\ IsDigits(SubSeq(s, 1, 5))

ZipRegex(s) ==
    \/ Len(s) = 5 /\ IsDigits(s)
    \/ /\ Len(s) = 10
       /\ IsDigits(SubSeq(s, 1, 5))
       /\ s[6] = "-"
       /\ IsDigits(SubSeq(s, 7, 10))

NaicsRegex_Digits(s) == IsDigits(s)

NaicsRegex(s) == Len(s) = 6 /\ IsDigits(s)

----------------------------------------------------------------------------
(* Request context and input validation *)

(* The caller value of a request during which the identity provider       *)
(* raises an error.                                                        *)
ProviderThrows == "throws"

createTRPCContext_FailOpen(caller) == [userId |-> caller, user |-> caller]

(* The identity the provider reports, or the unauthenticated context of    *)
(* the catch block when the provider raises.                               *)
createTRPCContext(caller) ==
    IF caller = ProviderThrows
    THEN [userId |-> NoUser, user |-> NoUser]
    ELSE [userId |-> caller, user |-> caller]

IsAuthed_Always(ctx) == TRUE

IsAuthed(ctx) == ctx.userId # NoUser /\ ctx.user # NoUser

IsUuid(id) == id # BadId

FieldOk(k, v) ==
    CASE k = "name" -> Len(v) >= 1 /\ Len(v) <= 255
      [] k = "address" -> Len(v) >= 1 /\ Len(v) <= 500
      [] k = "city" -> Len(v) >= 1 /\ Len(v) <= 100
      [] k = "state" -> Len(v) = 2
      [] k = "zipCode" -> ZipRegex(v) /\ Len(v) <= 10
      [] k = "naicsCode" -> NaicsRegex(v)
      [] k = "industryDescription" -> Len(v) <= 500
      [] k = "averageEmployees" -> IsInt(v) /\ v.hi >= 0

FieldOut_Identity(k, v) == v

FieldOut(k, v) == IF k = "state" THEN ToUpperCase(v) ELSE v

KnownKeys(input) == DOMAIN input \cap SchemaKeys

PartialOk(data) == \A k \in KnownKeys(data) : FieldOk(k, data[k])

PartialParse_Passthrough(data) == [k \in DOMAIN data |-> FieldOut(k, data[k])]

PartialParse(data) == [k \in KnownKeys(data) |-> FieldOut(k, data[k])]

InputOk(input) == RequiredKeys \subseteq DOMAIN input /\ PartialOk(input)

----------------------------------------------------------------------------
(* Storage statements *)

ColumnOk(k, v) ==
    CASE k = "name" -> Len(v) <= 255
      [] k = "address" -> Len(v) <= 500
      [] k = "city" -> Len(v) <= 100
      [] k = "state" -> Len(v) <= 2
      [] k = "zipCode" -> Len(v) <= 10
      [] k = "naicsCode" -> v = Null \/ Len(v) <= 6
      [] k = "industryDescription" -> v = Null \/ Len(v) <= 500
      [] k = "averageEmployees" -> v.hi \in {-1, 0}
      [] OTHER -> TRUE

ColumnsOk(values) == \A k \in DOMAIN values : ColumnOk(k, values[k])

SelectByIdAndUser_IdOnly(tbl, id, uid) == {r \in tbl : r.id = id}

SelectByIdAndUser(tbl, id, uid) == {r \in tbl : r.id = id /\ r.userId = uid}

Limit1(S) == IF S = {} THEN {<<>>} ELSE {<<r>> : r \in S}

SelectByUser_NoFilter(tbl, uid) == tbl

SelectByUser(tbl, uid) == {r \in tbl : r.userId = uid}

OrderedBy_Desc(S) ==
    {q \in [1..Cardinality(S) -> S] :
        /\ \A i, j \in 1..Cardinality(S) : i # j => q[i] # q[j]
        /\ \A i, j \in 1..Cardinality(S) :
              i < j => q[i].createdAt >= q[j].createdAt}

OrderedBy(S) ==
    {q \in [1..Cardinality(S) -> S] :
        /\ \A i, j \in 1..Cardinality(S) : i # j => q[i] # q[j]
        /\ \A i, j \in 1..Cardinality(S) :
              i < j => q[i].createdAt <= q[j].createdAt}

OrNull(input, k) ==
    IF k \in DOMAIN input /\ input[k] # <<>> THEN input[k] ELSE Null

CreateValues(ctx, input, t) ==
    [userId |-> ctx.userId,
     name |-> input.name,
     address |-> input.address,
     city |-> input.city,
     state |-> input.state,
     zipCode |-> input.zipCode,
     naicsCode |-> OrNull(input, "naicsCode"),
     industryDescription |-> OrNull(input, "industryDescription"),
     averageEmployees |-> input.averageEmployees,
     updatedAt |-> t]

InsertedRow_SameId(values, id, t) ==
    [k \in DOMAIN values \cup {"id", "createdAt"} |->
        IF k \in DOMAIN values THEN values[k]
        ELSE IF k = "id" THEN 1 ELSE t]

InsertedRow(values, id, t) ==
    [k \in DOMAIN values \cup {"id", "createdAt"} |->
        IF k \in DOMAIN values THEN values[k]
        ELSE IF k = "id" THEN id ELSE t]

UpdateSet_NoRefresh(data, t) == data

UpdateSet(data, t) ==
    [k \in DOMAIN data \cup {"updatedAt"} |->
        IF k = "updatedAt" THEN t ELSE data[k]]

Assign_FirstWins(r, set) ==
    [k \in DOMAIN r |->
        IF k \in DOMAIN set
           /\ ~(k = "averageEmployees" /\ r[k] # Number(0, 10))
        THEN set[k] ELSE r[k]]

Assign(r, set) == [k \in DOMAIN r |-> IF k \in DOMAIN set THEN set[k] ELSE r[k]]

UpdateById_NoWhere(tbl, id, set) == {Assign(r, set) : r \in tbl}

UpdateById(tbl, id, set) ==
    {IF r.id = id THEN Assign(r, set) ELSE r : r \in tbl}

UpdateReturning(tbl, id, set) == {Assign(r, set) : r \in {x \in tbl : x.id = id}}

DeleteById_Keep(tbl, id) == tbl

DeleteById(tbl, id) == {r \in tbl : r.id # id}

Cascade_None(subs, tbl) == subs

Cascade(subs, tbl) ==
    {s \in subs : \E r \in tbl : r.id = s.establishmentId}

----------------------------------------------------------------------------
(* Request inputs *)

S_name1 == <<"A", "c", "m", "e">>
S_name2 == <<"B", "o", "l", "t">>
S_addr == <<"1", " ", "M", "a", "i", "n">>
S_city == <<"R", "e", "n", "o">>
S_zip5 == <<"9", "0", "0", "0", "1">>
S_zip4 == <<"9", "0", "0", "0">>
S_naics == <<"3", "3", "2", "7", "1", "0">>
S_descr == <<"s", "h", "o", "p">>

Input1 ==
    [name |-> S_name1, address |-> S_addr, city |-> S_city,
     state |-> <<"c", "a">>, zipCode |-> S_zip5, naicsCode |-> S_naics,
     industryDescription |-> S_descr, averageEmployees |-> Number(0, 10),
     userId |-> "user_2", id |-> 1, createdAt |-> 0]

InputBadZip == [Input1 EXCEPT !.zipCode = S_zip4]

InputOverflow == [Input1 EXCEPT !.averageEmployees = Number(1, 0)]

CreateInputs == {Input1, InputBadZip, InputOverflow}

DataEmployees == [averageEmployees |-> Number(0, 25)]
DataOwner == [userId |-> "user_2", id |-> 2, createdAt |-> 1]
DataBadZip == [zipCode |-> S_zip4]
DataOverflow == [averageEmployees |-> Number(1, 0)]

UpdateInputs == {DataEmployees, DataOwner, DataBadZip, DataOverflow}

InputIds == Ids \cup {BadId}

----------------------------------------------------------------------------
(* Responses *)

NoResp ==
    [op |-> "none", caller |-> NoUser, id |-> BadId, kind |-> "NONE",
     msg |-> "", rows |-> <<>>, stmts |-> <<>>, zodError |-> NoCause]

(* op, caller and id echo the request; kind, msg and rows are what the     *)
(* caller receives, with zodError the data field the error formatter adds; *)
(* stmts are the storage statements the step issued.                       *)
Response(op, caller, id, kind, msg, rows, stmts) ==
    [op |-> op, caller |-> caller, id |-> id, kind |-> kind, msg |-> msg,
     rows |-> rows, stmts |-> stmts, zodError |-> NoCause]

(* The error formatter copies the message of the error's cause into the    *)
(* response whenever the cause is an Error.                                *)
errorFormatter(shape, cause) == [shape EXCEPT !.zodError = cause]

Internal(op, caller, id, msg, cause, stmts) ==
    errorFormatter(
        Response(op, caller, id, "INTERNAL_SERVER_ERROR", msg, <<>>, stmts),
        cause)

Unauthorized(op, caller) ==
    Response(op, caller, BadId, "UNAUTHORIZED", UnauthorizedMsg, <<>>, <<>>)

BadRequest(op, caller, id) ==
    errorFormatter(
        Response(op, caller, id, "BAD_REQUEST", ValidationMsg, <<>>, <<>>),
        ValidationMsg)

NotFound_Leaky(op, caller, id) ==
    IF \E r \in establishments : r.id = id
    THEN Response(op, caller, id, "FORBIDDEN", "You do not have access", <<>>,
                  <<"select">>)
    ELSE Response(op, caller, id, "NOT_FOUND", "Establishment not found", <<>>,
                  <<"select">>)

NotFound(op, caller, id) ==
    Response(op, caller, id, "NOT_FOUND", NotFoundMsg, <<>>, <<"select">>)

----------------------------------------------------------------------------
(* Telemetry *)

Breadcrumb(category) ==
    [call |-> "breadcrumb", label |-> category, tags |-> {},
     error |-> NoCause, threw |-> FALSE]

Capture(component, tags, error) ==
    [call |-> "exception", label |-> component, tags |-> tags,
     error |-> error, threw |-> FALSE]

Component(op) ==
    CASE op = "list" -> "establishmentRouter.list"
      [] op = "getById" -> "establishmentRouter.getById"
      [] op = "create" -> "establishmentRouter.create"
      [] op = "update" -> "establishmentRouter.update"
      [] op = "delete" -> "establishmentRouter.delete"

CaptureTags(op) ==
    IF op \in {"list", "create"} THEN {"component", "userId"}
    ELSE {"component", "establishmentId"}

(* The telemetry calls a handler makes on the way to response r when every *)
(* telemetry call returns: the breadcrumb before the statement, and in the *)
(* catch block the captured exception.                                     *)
TelemetryOf(r) ==
    CASE r.op = "none" -> <<>>
      [] r.kind = "UNAUTHORIZED" -> <<Breadcrumb("auth")>>
      [] r.kind = "BAD_REQUEST" -> <<>>
      [] r.kind = "INTERNAL_SERVER_ERROR" /\ r.op \in {"list", "getById"} ->
            <<Breadcrumb("db-query"),
              Capture(Component(r.op), CaptureTags(r.op), r.zodError)>>
      [] r.kind = "INTERNAL_SERVER_ERROR" /\ r.stmts = <<"select">> ->
            <<Capture(Component(r.op), CaptureTags(r.op), r.zodError)>>
      [] r.kind = "INTERNAL_SERVER_ERROR" ->
            <<Breadcrumb("db-mutation"),
              Capture(Component(r.op), CaptureTags(r.op), r.zodError)>>
      [] r.op \in {"list", "getById"} -> <<Breadcrumb("db-query")>>
      [] r.kind = "NOT_FOUND" -> <<>>
      [] r.op = "create" ->
            <<Breadcrumb("db-mutation"), Breadcrumb("db-mutation")>>
      [] OTHER -> <<Breadcrumb("db-mutation")>>

NoReq == <<>>

(* What a step leaves to observe besides its response: the telemetry calls *)
(* made and the payload that was sent.                                     *)
Observe(input) ==
    /\ sink' = TelemetryOf(resp')
    /\ req' = IF resp' = NoResp THEN NoReq ELSE input
    /\ UNCHANGED client

----------------------------------------------------------------------------
(* Client: selection state *)

(* A JavaScript number that is an integer, and the number NaN.             *)
JSNumber(n) == [nan |-> FALSE, value |-> n]
NaN == [nan |-> TRUE, value |-> 0]

CurrentYear == 2025

DigitChars == <<"0", "1", "2", "3", "4", "5", "6", "7", "8", "9">>

RECURSIVE NatToString(_)
NatToString(n) ==
    IF n < 10 THEN <<DigitChars[n + 1]>>
    ELSE NatToString(n \div 10) \o <<DigitChars[(n % 10) + 1]>>

(* Number.prototype.toString of an integer *)
toString(n) == IF n < 0 THEN <<"-">> \o NatToString(-n) ELSE NatToString(n)

RECURSIVE StripLeft(_)
StripLeft(s) ==
    IF s # <<>> /\ Head(s) = " " THEN StripLeft(Tail(s)) ELSE s

RECURSIVE DigitPrefix(_)
DigitPrefix(s) ==
    IF s # <<>> /\ Head(s) \in Digits
    THEN <<Head(s)>> \o DigitPrefix(Tail(s))
    ELSE <<>>

RECURSIVE DigitsValue(_)
DigitsValue(d) ==
    IF d = <<>> THEN 0
    ELSE 10 * DigitsValue(SubSeq(d, 1, Len(d) - 1))
         + ((CHOOSE i \in 1..10 : DigitChars[i] = d[Len(d)]) - 1)

(* parseInt(s, 10): leading blanks, an optional sign, then the longest run *)
(* of digits; NaN when there is no digit.                                  *)
ParseInt(s) ==
    LET t == StripLeft(s)
        signed == t # <<>> /\ t[1] \in {"-", "+"}
        d == DigitPrefix(IF signed THEN Tail(t) ELSE t)
    IN IF d = <<>> THEN NaN
       ELSE JSNumber(IF signed /\ t[1] = "-" THEN -DigitsValue(d)
                     ELSE DigitsValue(d))

(* A localStorage value in a condition: null and "" are falsy.             *)
Truthy(v) == v # Null /\ v # <<>>

HydratedYear_NoCheck(saved, year) ==
    IF Truthy(saved) THEN ParseInt(saved) ELSE year

(* The year after the hydration effect *)
HydratedYear(saved, year) ==
    IF Truthy(saved) /\ ~ParseInt(saved).nan THEN ParseInt(saved) ELSE year

HydratedId_Skip(saved, id) == id

(* The establishment id after the hydration effect *)
HydratedId(saved, id) == IF Truthy(saved) THEN saved ELSE id

Renders_Always(isHydrated) == TRUE

(* The provider renders its children only once hydrated.                   *)
Renders(isHydrated) == isHydrated

(* No request of the query client is under way.                            *)
NoRequest ==
    [kind |-> "none", status |-> "idle", failureCount |-> 0, auto |-> 0,
     caller |-> NoUser]

NotSet == [set |-> FALSE, value |-> Null]
WasSet(v) == [set |-> TRUE, value |-> v]

(* mounted .. storage: the provider's state and localStorage. startup:     *)
(* localStorage as it was at mount. lastId, lastYear: what the setters     *)
(* were last called with since storage was last written from outside.      *)
(* touchedId, touchedYear: a setter was called since mount. reloaded: the  *)
(* provider was mounted anew since a setter was last called. request: the  *)
(* query or mutation under way, with auto the number of times it was       *)
(* re-issued without the user. form: what the add form was last submitted  *)
(* with and whether its schema accepted it.                                *)
ClientInit ==
    [mounted |-> FALSE, establishmentId |-> Null,
     year |-> JSNumber(CurrentYear), isHydrated |-> FALSE,
     rendered |-> FALSE,
     storage |-> [id |-> Null, year |-> Null],
     startup |-> [id |-> Null, year |-> Null],
     lastId |-> NotSet, lastYear |-> NotSet,
     touchedId |-> FALSE, touchedYear |-> FALSE, reloaded |-> FALSE,
     request |-> NoRequest,
     form |-> [tried |-> FALSE, accepted |-> FALSE, values |-> <<>>]]

(* First render of a freshly mounted provider: useState defaults.          *)
Mount ==
    /\ ~client.mounted
    /\ client' = [client EXCEPT
          !.mounted = TRUE,
          !.establishmentId = Null,
          !.year = JSNumber(CurrentYear),
          !.isHydrated = FALSE,
          !.rendered = Renders(FALSE),
          !.startup = client.storage,
          !.touchedId = FALSE, !.touchedYear = FALSE,
          !.reloaded = TRUE]
    /\ UNCHANGED server

(* The mount effect *)
Hydrate ==
    /\ client.mounted /\ ~client.isHydrated
    /\ client' = [client EXCEPT
          !.establishmentId = HydratedId(client.storage.id, @),
          !.year = HydratedYear(client.storage.year, @),
          !.isHydrated = TRUE,
          !.rendered = Renders(TRUE)]
    /\ UNCHANGED server

setEstablishmentId(id) ==
    /\ client.rendered
    /\ client' = [client EXCEPT
          !.establishmentId = id,
          !.storage.id = IF Truthy(id) THEN id ELSE Null,
          !.lastId = WasSet(id), !.touchedId = TRUE, !.reloaded = FALSE]
    /\ UNCHANGED server

setYear(newYear) ==
    /\ client.rendered
    /\ client' = [client EXCEPT
          !.year = JSNumber(newYear),
          !.storage.year = toString(newYear),
          !.lastYear = WasSet(newYear), !.touchedYear = TRUE,
          !.reloaded = FALSE]
    /\ UNCHANGED server

(* The page is left or reloaded: the in-memory state is gone.              *)
Unmount ==
    /\ client.mounted
    /\ client' = [client EXCEPT
          !.mounted = FALSE, !.rendered = FALSE, !.isHydrated = FALSE,
          !.establishmentId = Null, !.year = JSNumber(CurrentYear)]
    /\ UNCHANGED server

(* Between sessions localStorage holds whatever was written to its keys    *)
(* before, by this or another version of the page.                         *)
Persisted(id, year) ==
    /\ ~client.mounted
    /\ client' = [client EXCEPT
          !.storage = [id |-> id, year |-> year],
          !.lastId = NotSet, !.lastYear = NotSet, !.reloaded = FALSE]
    /\ UNCHANGED server


----------------------------------------------------------------------------
(* Initial state *)

Init ==
    /\ establishments = {}
    /\ subscriptions = {}
    /\ pending = {}
    /\ now = 0
    /\ usedIds = {}
    /\ resp = NoResp
    /\ createdBy = [i \in Ids |-> NoUser]
    /\ deleted = {}
    /\ sink = <<>>
    /\ req = NoReq
    /\ client = ClientInit

----------------------------------------------------------------------------
(* Operations *)

Tick ==
    /\ resp = NoResp
    /\ now < MaxTime
    /\ now' = now + 1
    /\ resp' = NoResp
    /\ UNCHANGED <<establishments, subscriptions, pending, usedIds,
                   createdBy, deleted>>

InsertSubscription(sid, eid) ==
    /\ resp = NoResp
    /\ \A s \in subscriptions : s.id # sid
    /\ \E r \in establishments : r.id = eid
    /\ subscriptions' = subscriptions \cup
          {[id |-> sid, establishmentId |-> eid, year |-> 2025,
            status |-> "active"]}
    /\ resp' = NoResp
    /\ UNCHANGED <<establishments, pending, now, usedIds, createdBy, deleted>>

List(caller) ==
    LET ctx == createTRPCContext(caller) IN
    /\ resp = NoResp
    /\ IF ~IsAuthed(ctx)
       THEN resp' = Unauthorized("list", caller)
       ELSE \E results \in OrderedBy(SelectByUser(establishments, ctx.userId)) :
               resp' = Response("list", caller, BadId, "OK", "", results,
                                <<"select">>)
    /\ UNCHANGED <<establishments, subscriptions, pending, now, usedIds,
                   createdBy, deleted>>

GetById(caller, id) ==
    LET ctx == createTRPCContext(caller) IN
    /\ resp = NoResp
    /\ IF ~IsAuthed(ctx)
       THEN resp' = Unauthorized("getById", caller)
       ELSE IF ~IsUuid(id)
       THEN resp' = BadRequest("getById", caller, id)
       ELSE \E result \in
                 Limit1(SelectByIdAndUser(establishments, id, ctx.userId)) :
               IF Len(result) = 0
               THEN resp' = NotFound("getById", caller, id)
               ELSE resp' = Response("getById", caller, id, "OK", "", result,
                                     <<"select">>)
    /\ UNCHANGED <<establishments, subscriptions, pending, now, usedIds,
                   createdBy, deleted>>

Create(caller, input) ==
    LET ctx == createTRPCContext(caller)
        values == CreateValues(ctx, PartialParse(input), now)
    IN
    /\ resp = NoResp
    /\ IF ~IsAuthed(ctx)
       THEN /\ resp' = Unauthorized("create", caller)
            /\ UNCHANGED <<establishments, subscriptions, pending, now, usedIds,
                           createdBy, deleted>>
       ELSE IF ~InputOk(input)
       THEN /\ resp' = BadRequest("create", caller, BadId)
            /\ UNCHANGED <<establishments, subscriptions, pending, now, usedIds,
                           createdBy, deleted>>
       ELSE IF ~ColumnsOk(values)
       THEN /\ resp' = Internal("create", caller, BadId, CreateFailedMsg,
                                ConstraintMsg, <<"insert">>)
            /\ UNCHANGED <<establishments, subscriptions, pending, now, usedIds,
                           createdBy, deleted>>
       ELSE \E id \in Ids \ usedIds :
              LET row == InsertedRow(values, id, now) IN
              /\ establishments' = establishments \cup {row}
              /\ usedIds' = usedIds \cup {id}
              /\ createdBy' = [createdBy EXCEPT ![id] = caller]
              /\ resp' = Response("create", caller, BadId, "OK", "", <<row>>,
                                  <<"insert">>)
              /\ UNCHANGED <<subscriptions, pending, now, deleted>>

UpdateCheck(caller, id, data) ==
    LET ctx == createTRPCContext(caller) IN
    /\ resp = NoResp
    /\ IF ~IsAuthed(ctx)
       THEN /\ resp' = Unauthorized("update", caller)
            /\ UNCHANGED <<establishments, subscriptions, pending, now, usedIds,
                           createdBy, deleted>>
       ELSE IF ~(IsUuid(id) /\ PartialOk(data))
       THEN /\ resp' = BadRequest("update", caller, id)
            /\ UNCHANGED <<establishments, subscriptions, pending, now, usedIds,
                           createdBy, deleted>>
       ELSE \E existing \in
                 Limit1(SelectByIdAndUser(establishments, id, ctx.userId)) :
              IF Len(existing) = 0
              THEN /\ resp' = NotFound("update", caller, id)
                   /\ UNCHANGED <<establishments, subscriptions, pending, now,
                                  usedIds, createdBy, deleted>>
              ELSE /\ Cardinality(pending) < MaxPending
                   /\ pending' = pending \cup
                         {[op |-> "update", caller |-> caller, id |-> id,
                           data |-> PartialParse(data), raw |-> data]}
                   /\ resp' = NoResp
                   /\ UNCHANGED <<establishments, subscriptions, now, usedIds,
                                  createdBy, deleted>>

UpdateWrite(p) ==
    LET set == UpdateSet(p.data, now) IN
    /\ resp = NoResp
    /\ p.op = "update"
    /\ pending' = pending \ {p}
    /\ IF ~ColumnsOk(set)
       THEN /\ resp' = Internal("update", p.caller, p.id, UpdateFailedMsg,
                                ConstraintMsg, <<"update">>)
            /\ UNCHANGED establishments
       ELSE /\ establishments' = UpdateById(establishments, p.id, set)
            /\ \E result \in Limit1(UpdateReturning(establishments, p.id, set)) :
                  resp' = Response("update", p.caller, p.id, "OK", "", result,
                                   <<"update">>)
    /\ UNCHANGED <<subscriptions, now, usedIds, createdBy, deleted>>

DeleteCheck(caller, id) ==
    LET ctx == createTRPCContext(caller) IN
    /\ resp = NoResp
    /\ IF ~IsAuthed(ctx)
       THEN /\ resp' = Unauthorized("delete", caller)
            /\ UNCHANGED <<establishments, subscriptions, pending, now, usedIds,
                           createdBy, deleted>>
       ELSE IF ~IsUuid(id)
       THEN /\ resp' = BadRequest("delete", caller, id)
            /\ UNCHANGED <<establishments, subscriptions, pending, now, usedIds,
                           createdBy, deleted>>
       ELSE \E existing \in
                 Limit1(SelectByIdAndUser(establishments, id, ctx.userId)) :
              IF Len(existing) = 0
              THEN /\ resp' = NotFound("delete", caller, id)
                   /\ UNCHANGED <<establishments, subscriptions, pending, now,
                                  usedIds, createdBy, deleted>>
              ELSE /\ Cardinality(pending) < MaxPending
                   /\ pending' = pending \cup
                         {[op |-> "delete", caller |-> caller, id |-> id,
                           data |-> <<>>, raw |-> <<>>]}
                   /\ resp' = NoResp
                   /\ UNCHANGED <<establishments, subscriptions, now, usedIds,
                                  createdBy, deleted>>

DeleteWrite(p) ==
    /\ resp = NoResp
    /\ p.op = "delete"
    /\ pending' = pending \ {p}
    /\ establishments' = DeleteById(establishments, p.id)
    /\ subscriptions' = Cascade(subscriptions, establishments')
    /\ deleted' = deleted \cup {p.id}
    /\ resp' = Response("delete", p.caller, p.id, "OK", "", <<>>, <<"delete">>)
    /\ UNCHANGED <<now, usedIds, createdBy>>

Reply ==
    /\ resp # NoResp
    /\ resp' = NoResp
    /\ UNCHANGED <<establishments, subscriptions, pending, now, usedIds,
                   createdBy, deleted>>

----------------------------------------------------------------------------
(* Specification *)

Next ==
    \/ Tick /\ Observe(NoReq)
    \/ \E sid \in SubIds, eid \in Ids :
          InsertSubscription(sid, eid) /\ Observe(NoReq)
    \/ \E caller \in Callers : List(caller) /\ Observe(NoReq)
    \/ \E caller \in Callers, id \in InputIds :
          GetById(caller, id) /\ Observe(NoReq)
    \/ \E caller \in Callers, input \in CreateInputs :
          Create(caller, input) /\ Observe(input)
    \/ \E caller \in Callers, id \in InputIds, data \in UpdateInputs :
          UpdateCheck(caller, id, data) /\ Observe(data)
    \/ \E p \in pending : UpdateWrite(p) /\ Observe(p.raw)
    \/ \E caller \in Callers, id \in InputIds :
          DeleteCheck(caller, id) /\ Observe(NoReq)
    \/ \E p \in pending : DeleteWrite(p) /\ Observe(NoReq)
    \/ Reply /\ Observe(NoReq)

Spec == Init /\ [][Next]_vars

----------------------------------------------------------------------------
(* Failing collaborators: a storage statement may raise an error, and a    *)
(* telemetry call may throw.                                               *)

StorageErrors == {"connection terminated unexpectedly",
                  "deadlock detected on relation establishments"}
StorageOutcomes == {"ok"} \cup StorageErrors

TelemetryMsg == "telemetry transport failed"

(* The telemetry calls of a handler that can throw: the breadcrumb before  *)
(* the statement, create's breadcrumb after a successful insert, and the   *)
(* captured exception of the catch block.                                  *)
TelemetryCalls == {"breadcrumb", "success", "capture"}

Thrown(call) == [call EXCEPT !.threw = TRUE]

Called(call, throws) == IF throws THEN Thrown(call) ELSE call

(* The try block fails when its breadcrumb throws or its statement raises. *)
IsFault(db, tel) == "breadcrumb" \in tel \/ db # "ok"

TryError(db, tel) == IF "breadcrumb" \in tel THEN TelemetryMsg ELSE db

TryStmts(stmt, tel) == IF "breadcrumb" \in tel THEN <<>> ELSE <<stmt>>

(* An error that is not a TRPCError leaves the procedure as an internal    *)
(* error carrying the message of the error itself.                         *)
Uncaught(op, caller, id, e, stmts) == Internal(op, caller, id, e, e, stmts)

Catch_Swallow(op, caller, id, msg, e, stmts, tel) ==
    Response(op, caller, id, "OK", "", <<>>, stmts)

(* The catch block of a handler: captureException, then the generic error  *)
(* with the caught error as its cause.                                     *)
Catch(op, caller, id, msg, e, stmts, tel) ==
    IF "capture" \in tel
    THEN Uncaught(op, caller, id, TelemetryMsg, stmts)
    ELSE Internal(op, caller, id, msg, e, stmts)

CatchSink_NoCapture(op, e, tel) == <<>>

CatchSink(op, e, tel) ==
    <<Called(Capture(Component(op), CaptureTags(op), e), "capture" \in tel)>>

TrySink(op, category, db, tel) ==
    <<Called(Breadcrumb(category), "breadcrumb" \in tel)>>
    \o CatchSink(op, TryError(db, tel), tel)

(* create's calls: the try block fails, or the insert succeeds and the    *)
(* breadcrumb after it throws.                                             *)
CreateSink(db, tel) ==
    IF IsFault(db, tel)
    THEN TrySink("create", "db-mutation", db, tel)
    ELSE <<Breadcrumb("db-mutation"), Thrown(Breadcrumb("db-mutation"))>>
         \o CatchSink("create", TelemetryMsg, tel)

(* What a step with a failing collaborator leaves to observe.              *)
ObserveFault(calls, input) ==
    /\ sink' = calls
    /\ req' = input
    /\ UNCHANGED client

UnauthorizedFault(op, caller) ==
    LET ctx == createTRPCContext(caller) IN
    /\ resp = NoResp
    /\ ~IsAuthed(ctx)
    /\ resp' = Uncaught(op, caller, BadId, TelemetryMsg, <<>>)
    /\ UNCHANGED <<establishments, subscriptions, pending, now, usedIds,
                   createdBy, deleted>>

ListFault(caller, db, tel) ==
    LET ctx == createTRPCContext(caller) IN
    /\ resp = NoResp
    /\ IsAuthed(ctx)
    /\ IsFault(db, tel)
    /\ resp' = Catch("list", caller, BadId, ListFailedMsg, TryError(db, tel),
                     TryStmts("select", tel), tel)
    /\ UNCHANGED <<establishments, subscriptions, pending, now, usedIds,
                   createdBy, deleted>>

GetByIdFault(caller, id, db, tel) ==
    LET ctx == createTRPCContext(caller) IN
    /\ resp = NoResp
    /\ IsAuthed(ctx)
    /\ IsUuid(id)
    /\ IsFault(db, tel)
    /\ resp' = Catch("getById", caller, id, GetFailedMsg, TryError(db, tel),
                     TryStmts("select", tel), tel)
    /\ UNCHANGED <<establishments, subscriptions, pending, now, usedIds,
                   createdBy, deleted>>

CreateFault(caller, input, db, tel) ==
    LET ctx == createTRPCContext(caller)
        values == CreateValues(ctx, PartialParse(input), now)
    IN
    /\ resp = NoResp
    /\ IsAuthed(ctx)
    /\ InputOk(input)
    /\ IF IsFault(db, tel)
       THEN /\ resp' = Catch("create", caller, BadId, CreateFailedMsg,
                             TryError(db, tel), TryStmts("insert", tel), tel)
            /\ UNCHANGED <<establishments, subscriptions, pending, now, usedIds,
                           createdBy, deleted>>
       ELSE /\ "success" \in tel
            /\ ColumnsOk(values)
            /\ \E id \in Ids \ usedIds :
                  LET row == InsertedRow(values, id, now) IN
                  /\ establishments' = establishments \cup {row}
                  /\ usedIds' = usedIds \cup {id}
                  /\ createdBy' = [createdBy EXCEPT ![id] = caller]
            /\ resp' = Catch("create", caller, BadId, CreateFailedMsg,
                             TelemetryMsg, <<"insert">>, tel)
            /\ UNCHANGED <<subscriptions, pending, now, deleted>>

UpdateCheckFault(caller, id, data, db, tel) ==
    LET ctx == createTRPCContext(caller) IN
    /\ resp = NoResp
    /\ IsAuthed(ctx)
    /\ IsUuid(id) /\ PartialOk(data)
    /\ db # "ok"
    /\ resp' = Catch("update", caller, id, UpdateFailedMsg, db, <<"select">>,
                     tel)
    /\ UNCHANGED <<establishments, subscriptions, pending, now, usedIds,
                   createdBy, deleted>>

UpdateWriteFault(p, db, tel) ==
    /\ resp = NoResp
    /\ p.op = "update"
    /\ IsFault(db, tel)
    /\ pending' = pending \ {p}
    /\ resp' = Catch("update", p.caller, p.id, UpdateFailedMsg,
                     TryError(db, tel), TryStmts("update", tel), tel)
    /\ UNCHANGED <<establishments, subscriptions, now, usedIds, createdBy,
                   deleted>>

DeleteCheckFault(caller, id, db, tel) ==
    LET ctx == createTRPCContext(caller) IN
    /\ resp = NoResp
    /\ IsAuthed(ctx)
    /\ IsUuid(id)
    /\ db # "ok"
    /\ resp' = Catch("delete", caller, id, DeleteFailedMsg, db, <<"select">>,
                     tel)
    /\ UNCHANGED <<establishments, subscriptions, pending, now, usedIds,
                   createdBy, deleted>>

DeleteWriteFault(p, db, tel) ==
    /\ resp = NoResp
    /\ p.op = "delete"
    /\ IsFault(db, tel)
    /\ pending' = pending \ {p}
    /\ resp' = Catch("delete", p.caller, p.id, DeleteFailedMsg,
                     TryError(db, tel), TryStmts("delete", tel), tel)
    /\ UNCHANGED <<establishments, subscriptions, now, usedIds, createdBy,
                   deleted>>

Ops == {"list", "getById", "create", "update", "delete"}

IdentityMsg == "identity provider unavailable"

(* The context builder captures the provider's error before the procedure  *)
(* runs.                                                                   *)
ObserveContext(input) ==
    /\ sink' = <<Capture("trpc-context", {"component"}, IdentityMsg)>>
                \o TelemetryOf(resp')
    /\ req' = IF resp' = NoResp THEN NoReq ELSE input
    /\ UNCHANGED client

(* The five procedures called while the identity provider raises.          *)
ContextFault ==
    \E caller \in {ProviderThrows} :
       \/ List(caller) /\ ObserveContext(NoReq)
       \/ \E id \in InputIds : GetById(caller, id) /\ ObserveContext(NoReq)
       \/ \E input \in CreateInputs :
             Create(caller, input) /\ ObserveContext(input)
       \/ \E id \in InputIds, data \in UpdateInputs :
             UpdateCheck(caller, id, data) /\ ObserveContext(data)
       \/ \E id \in InputIds : DeleteCheck(caller, id) /\ ObserveContext(NoReq)

(* The responding steps of the five procedures while every collaborator    *)
(* works.                                                                  *)
Requests ==
    \/ \E caller \in Callers : List(caller) /\ Observe(NoReq)
    \/ \E caller \in Callers, id \in InputIds :
          GetById(caller, id) /\ Observe(NoReq)
    \/ \E caller \in Callers, input \in CreateInputs :
          Create(caller, input) /\ Observe(input)
    \/ \E caller \in Callers, id \in InputIds, data \in UpdateInputs :
          UpdateCheck(caller, id, data) /\ Observe(data)
    \/ \E p \in pending : UpdateWrite(p) /\ Observe(p.raw)
    \/ \E caller \in Callers, id \in InputIds :
          DeleteCheck(caller, id) /\ Observe(NoReq)
    \/ \E p \in pending : DeleteWrite(p) /\ Observe(NoReq)
    \/ Reply /\ Observe(NoReq)

Faults ==
    \/ \E op \in Ops, caller \in Callers :
          /\ UnauthorizedFault(op, caller)
          /\ ObserveFault(<<Thrown(Breadcrumb("auth"))>>, NoReq)
    \/ \E caller \in Users, db \in StorageOutcomes,
          tel \in SUBSET {"breadcrumb", "capture"} :
          /\ ListFault(caller, db, tel)
          /\ ObserveFault(TrySink("list", "db-query", db, tel), NoReq)
    \/ \E caller \in Users, id \in Ids, db \in StorageOutcomes,
          tel \in SUBSET {"breadcrumb", "capture"} :
          /\ GetByIdFault(caller, id, db, tel)
          /\ ObserveFault(TrySink("getById", "db-query", db, tel), NoReq)
    \/ \E caller \in Users, input \in CreateInputs, db \in StorageOutcomes,
          tel \in SUBSET TelemetryCalls :
          /\ CreateFault(caller, input, db, tel)
          /\ ObserveFault(CreateSink(db, tel), input)
    \/ \E caller \in Users, id \in Ids, data \in UpdateInputs,
          db \in StorageErrors, tel \in SUBSET {"capture"} :
          /\ UpdateCheckFault(caller, id, data, db, tel)
          /\ ObserveFault(CatchSink("update", db, tel), data)
    \/ \E p \in pending, db \in StorageOutcomes,
          tel \in SUBSET {"breadcrumb", "capture"} :
          /\ UpdateWriteFault(p, db, tel)
          /\ ObserveFault(TrySink("update", "db-mutation", db, tel), p.raw)
    \/ \E caller \in Users, id \in Ids, db \in StorageErrors,
          tel \in SUBSET {"capture"} :
          /\ DeleteCheckFault(caller, id, db, tel)
          /\ ObserveFault(CatchSink("delete", db, tel), NoReq)
    \/ \E p \in pending, db \in StorageOutcomes,
          tel \in SUBSET {"breadcrumb", "capture"} :
          /\ DeleteWriteFault(p, db, tel)
          /\ ObserveFault(TrySink("delete", "db-mutation", db, tel), NoReq)

NextFault == Requests \/ Faults \/ ContextFault

(* The router with failing collaborators. The clock is held and no         *)
(* subscription is inserted: neither takes part in a failure.              *)
SpecFault == Init /\ [][NextFault]_vars

----------------------------------------------------------------------------
(* Validation: payloads that vary one field of a valid payload.            *)

(* The state codes of the establishment form (50 states and DC).           *)
US_STATE_CODES ==
    {<<"A", "L">>, <<"A", "K">>, <<"A", "Z">>, <<"A", "R">>, <<"C", "A">>,
     <<"C", "O">>, <<"C", "T">>, <<"D", "E">>, <<"F", "L">>, <<"G", "A">>,
     <<"H", "I">>, <<"I", "D">>, <<"I", "L">>, <<"I", "N">>, <<"I", "A">>,
     <<"K", "S">>, <<"K", "Y">>, <<"L", "A">>, <<"M", "E">>, <<"M", "D">>,
     <<"M", "A">>, <<"M", "I">>, <<"M", "N">>, <<"M", "S">>, <<"M", "O">>,
     <<"M", "T">>, <<"N", "E">>, <<"N", "V">>, <<"N", "H">>, <<"N", "J">>,
     <<"N", "M">>, <<"N", "Y">>, <<"N", "C">>, <<"N", "D">>, <<"O", "H">>,
     <<"O", "K">>, <<"O", "R">>, <<"P", "A">>, <<"R", "I">>, <<"S", "C">>,
     <<"S", "D">>, <<"T", "N">>, <<"T", "X">>, <<"U", "T">>, <<"V", "T">>,
     <<"V", "A">>, <<"W", "A">>, <<"W", "V">>, <<"W", "I">>, <<"W", "Y">>,
     <<"D", "C">>}

Valid0 ==
    [name |-> S_name1, address |-> S_addr, city |-> S_city,
     state |-> <<"C", "A">>, zipCode |-> S_zip5, naicsCode |-> S_naics,
     industryDescription |-> S_descr, averageEmployees |-> Number(0, 10)]

Omit(input, k) == [j \in DOMAIN input \ {k} |-> input[j]]

StateSamples ==
    {<<"C", "A">>, <<"c", "a">>, <<"t", "x">>, <<"Z", "Z">>, <<"C">>, <<"C", "A", "L">>, <<"ß", "a">>,
     <<"1", "2">>}

ZipSamples ==
    {<<"9", "0", "0", "0", "1">>,
     <<"9", "0", "0", "0", "1", "-", "1", "2", "3", "4">>,
     <<"9", "0", "0", "0">>,
     <<"9", "0", "0", "0", "1", "1">>,
     <<"9", "0", "0", "0", "1", "-", "1", "2", "3">>,
     <<"9", "0", "0", "0", "a">>,
     <<"9", "0", "0", "0", "1", "+", "1", "2", "3", "4">>,
     <<"9", "0", "0", "0", "1", "-", "1", "2", "3", "4", "5">>,
     <<>>}

NaicsSamples ==
    {<<"3", "3", "2", "7", "1", "0">>, <<"1", "2", "3", "4", "5", "6">>, <<"1", "2", "3", "4", "5">>, <<"1", "2", "3", "4", "5", "6", "7">>,
     <<"3", "3", "2", "7", "1", "a">>, <<>>}

(* 0, 10, 999999, 1000000, 2^31, -1 and 1.5 *)
EmployeeSamples ==
    {Number(0, 0), Number(0, 10), Number(0, 999999), Number(0, 1000000),
     Number(1, 0), Number(-1, 2147483647), Fraction(0, 1, 5)}

Samples(k) ==
    CASE k = "state" -> StateSamples
      [] k = "zipCode" -> ZipSamples
      [] k = "naicsCode" -> NaicsSamples
      [] k = "averageEmployees" -> EmployeeSamples
      [] k = "name" -> {<<>>, S_name1}

SampledKeys == {"state", "zipCode", "naicsCode", "averageEmployees", "name"}

ValidationInputs ==
    UNION {{[Valid0 EXCEPT ![k] = v] : v \in Samples(k)} : k \in SampledKeys}
    \cup {Omit(Valid0, "naicsCode"), Omit(Valid0, "name")}

ValidationData ==
    {[state |-> <<"t", "x">>], [state |-> <<"C">>],
     [zipCode |-> S_zip4],
     [naicsCode |-> <<"1", "2", "3", "4", "5">>],
     [naicsCode |-> <<"1", "2", "3", "4", "5", "6">>],
     [averageEmployees |-> Fraction(0, 1, 5)]}

NextValidate ==
    \/ \E input \in ValidationInputs : Create("user_1", input) /\ Observe(input)
    \/ \E id \in Ids, data \in ValidationData :
          UpdateCheck("user_1", id, data) /\ Observe(data)
    \/ \E p \in pending : UpdateWrite(p) /\ Observe(p.raw)
    \/ Reply /\ Observe(NoReq)

(* One caller creating and updating establishments from sampled payloads.  *)
SpecValidate == Init /\ [][NextValidate]_vars

----------------------------------------------------------------------------
(* Concurrent updates: two payloads that share one field.                  *)

S_city2 == <<"E", "l", "k", "o">>
S_zip9 == <<"9", "0", "0", "0", "1", "-", "1", "2", "3", "4">>

DataFirst == [averageEmployees |-> Number(0, 25), city |-> S_city2]
DataSecond == [averageEmployees |-> Number(0, 30), zipCode |-> S_zip9]

ConcurrentData == {DataFirst, DataSecond}

NextConcurrent ==
    \/ Tick /\ Observe(NoReq)
    \/ Create("user_1", Input1) /\ Observe(Input1)
    \/ \E id \in Ids, data \in ConcurrentData :
          UpdateCheck("user_1", id, data) /\ Observe(data)
    \/ \E p \in pending : UpdateWrite(p) /\ Observe(p.raw)
    \/ Reply /\ Observe(NoReq)

(* One owner creating establishments and updating them concurrently.       *)
SpecConcurrent == Init /\ [][NextConcurrent]_vars

----------------------------------------------------------------------------
(* The selection state across page loads *)

S_uuid1 == <<"e", "1">>
S_uuid2 == <<"e", "2">>

NextSelection ==
    \/ Mount
    \/ Hydrate
    \/ \E id \in {Null, S_uuid1, S_uuid2} : setEstablishmentId(id)
    \/ \E y \in {CurrentYear - 5, 2026, CurrentYear + 2} : setYear(y)
    \/ Unmount
    \/ \E id \in {Null, <<>>, S_uuid1},
          year \in {Null, <<>>, toString(2026), <<"a", "b", "c">>,
                    <<"1", "2", "a", "b">>, <<" ", "-", "5">>, <<"-">>} :
          Persisted(id, year)

SpecSelection == Init /\ [][NextSelection]_vars

----------------------------------------------------------------------------
(* The query client and the add form *)

Retry_Never(kind) == 0

(* defaultOptions: queries are retried once; nothing is set for mutations, *)
(* which are not retried.                                                  *)
Retry(kind) == IF kind = "queries" THEN 1 ELSE 0

(* The request after its response r has arrived *)
Settled(q, r) ==
    IF r.kind = "OK" THEN [q EXCEPT !.status = "success"]
    ELSE IF q.failureCount < Retry(q.kind)
         THEN [q EXCEPT !.status = "retrying", !.failureCount = @ + 1]
         ELSE [q EXCEPT !.status = "error"]

(* establishment.list as the server handles it for the query client *)
ListRequest(caller, db, tel) ==
    /\ \/ /\ db = "ok" /\ tel = {}
          /\ List(caller)
          /\ sink' = TelemetryOf(resp')
       \/ /\ ListFault(caller, db, tel)
          /\ sink' = TrySink("list", "db-query", db, tel)
    /\ req' = NoReq

(* The establishment selector mounts, or the user asks for the list again. *)
useQuery(caller, db, tel) ==
    /\ client.request.status \in {"idle", "success", "error"}
    /\ ListRequest(caller, db, tel)
    /\ client' = [client EXCEPT
          !.request = [kind |-> "queries", status |-> "fetching",
                       failureCount |-> 0, auto |-> 0, caller |-> caller]]

(* The query client re-issues a failed query by itself.                    *)
AutoRetry(db, tel) ==
    /\ client.request.status = "retrying"
    /\ client.request.kind = "queries"
    /\ ListRequest(client.request.caller, db, tel)
    /\ client' = [client EXCEPT
          !.request.status = "fetching", !.request.auto = @ + 1]

(* The response arrives at the query client.                               *)
Receive ==
    /\ client.request.status = "fetching"
    /\ Reply
    /\ sink' = TelemetryOf(resp')
    /\ req' = NoReq
    /\ client' = [client EXCEPT !.request = Settled(@, resp)]

RECURSIVE StripRight(_)
StripRight(s) ==
    IF s # <<>> /\ s[Len(s)] = " "
    THEN StripRight(SubSeq(s, 1, Len(s) - 1))
    ELSE s

Trim(s) == StripRight(StripLeft(s))

FormFieldOk(k, v) ==
    CASE k = "name" -> Len(v) >= 1 /\ Len(v) <= 255
      [] k = "address" -> Len(v) >= 1 /\ Len(v) <= 500
      [] k = "city" -> Len(v) >= 1 /\ Len(v) <= 100
      [] k = "state" -> v \in US_STATE_CODES
      [] k = "zipCode" -> ZipRegex(v)
      [] k = "naicsCode" -> NaicsRegex(v) \/ v = <<>>
      [] k = "industryDescription" -> Len(v) <= 500 \/ v = <<>>
      [] k = "averageEmployees" ->
            IsInt(v) /\ v.hi = 0 /\ v.lo >= 0 /\ v.lo <= 999999

(* establishmentFormSchema accepts the form's values *)
FormOk(values) == \A k \in DOMAIN values : FormFieldOk(k, values[k])

(* What the schema hands to onSubmit *)
FormOut(values) ==
    [k \in DOMAIN values |->
        IF k \in {"name", "address", "city", "zipCode"}
        THEN Trim(values[k]) ELSE values[k]]

FormDefaults ==
    [name |-> <<>>, address |-> <<>>, city |-> <<>>, state |-> <<"C", "A">>,
     zipCode |-> <<>>, naicsCode |-> <<>>, industryDescription |-> <<>>,
     averageEmployees |-> Number(0, 0)]

(* The form with its required fields filled in *)
FormFilled ==
    [FormDefaults EXCEPT !.name = S_name1, !.address = S_addr,
                         !.city = S_city, !.zipCode = S_zip5]

FormInputs ==
    {FormDefaults, FormFilled,
     [FormFilled EXCEPT !.naicsCode = S_naics, !.industryDescription = S_descr],
     [FormFilled EXCEPT !.naicsCode = S_naics, !.name = <<" ">>],
     [FormFilled EXCEPT !.naicsCode = S_naics, !.state = <<"T", "X">>,
                        !.averageEmployees = Number(0, 1000000)],
     [FormFilled EXCEPT !.naicsCode = S_naics, !.zipCode = S_zip4]}

(* handleSubmit: the resolver validates; onSubmit sends what it accepted.  *)
handleSubmit(caller, values) ==
    /\ client.request.status \in {"idle", "success", "error"}
    /\ IF FormOk(values)
       THEN /\ Create(caller, FormOut(values))
            /\ sink' = TelemetryOf(resp')
            /\ req' = FormOut(values)
            /\ client' = [client EXCEPT
                  !.request = [kind |-> "mutations", status |-> "fetching",
                               failureCount |-> 0, auto |-> 0,
                               caller |-> caller],
                  !.form = [tried |-> TRUE, accepted |-> TRUE,
                            values |-> values]]
       ELSE /\ client' = [client EXCEPT
                  !.form = [tried |-> TRUE, accepted |-> FALSE,
                            values |-> values]]
            /\ UNCHANGED server

NextClient ==
    \/ \E caller \in Callers, db \in StorageOutcomes,
          tel \in SUBSET {"breadcrumb", "capture"} :
          useQuery(caller, db, tel)
    \/ \E db \in StorageOutcomes, tel \in SUBSET {"breadcrumb", "capture"} :
          AutoRetry(db, tel)
    \/ Receive
    \/ \E caller \in Users, values \in FormInputs :
          handleSubmit(caller, values)

SpecClient == Init /\ [][NextClient]_vars

----------------------------------------------------------------------------
(* Properties *)

Visible(tbl, caller, id) == \E r \in tbl : r.id = id /\ r.userId = caller

RowsOf(q) == {q[i] : i \in 1..Len(q)}

(* C1: in every step, a row that is modified or removed is modified or     *)
(* removed by the write of an update or delete request whose caller is the *)
(* row's owner, whatever requests ran between that request's ownership     *)
(* check and its write.                                                    *)
C1_OwnerOnlyMutation ==
    [][\A r \in establishments :
          r \notin establishments' =>
             /\ resp'.op \in {"update", "delete"}
             /\ resp'.caller = r.userId]_vars

(* An update wrote after a concurrent delete had removed its row, while a  *)
(* row of another owner was in the table.                                  *)
C1_Witness ==
    /\ resp.op = "update"
    /\ resp.kind = "OK"
    /\ resp.rows = <<>>
    /\ \E r \in establishments : r.userId # resp.caller

(* C2: a list response contains every stored establishment created by the  *)
(* caller, none created by another user, and only rows owned by the caller.*)
C2_ListIsolation ==
    (resp.op = "list" /\ resp.kind = "OK") =>
       /\ \A r \in establishments :
             (createdBy[r.id] = resp.caller) <=> (r \in RowsOf(resp.rows))
       /\ \A r \in RowsOf(resp.rows) :
             r.userId = resp.caller /\ r \in establishments

C2_Witness ==
    /\ resp.op = "list"
    /\ resp.kind = "OK"
    /\ Len(resp.rows) = 1
    /\ \E r \in establishments : createdBy[r.id] # resp.caller

(* C3: getById on an id the caller does not own answers with one fixed     *)
(* error (NOT_FOUND, the same message, no row), whether the id is that of  *)
(* another owner's row or of no row at all.                                *)
C3_GetByIdIndistinguishable ==
    (/\ resp.op = "getById"
     /\ resp.caller \in Users
     /\ IsUuid(resp.id)
     /\ ~Visible(establishments, resp.caller, resp.id)) =>
       /\ resp.kind = "NOT_FOUND"
       /\ resp.msg = NotFoundMsg
       /\ resp.rows = <<>>

C3_Witness ==
    /\ resp.op = "getById"
    /\ resp.kind = "NOT_FOUND"
    /\ \E r \in establishments : r.id = resp.id /\ r.userId # resp.caller

(* C4: a request without caller identity is answered UNAUTHORIZED, issues  *)
(* no storage statement, never proceeds to a write and leaves both tables  *)
(* unchanged.                                                              *)
C4_UnauthenticatedRejected ==
    [][/\ (resp'.op # "none" /\ resp'.caller = NoUser) =>
             /\ resp'.kind = "UNAUTHORIZED"
             /\ resp'.stmts = <<>>
             /\ UNCHANGED <<establishments, subscriptions>>
       /\ \A p \in pending' : p.caller # NoUser]_vars

C4_Witness ==
    /\ resp.op = "delete"
    /\ resp.caller = NoUser
    /\ resp.kind = "UNAUTHORIZED"
    /\ establishments # {}
    /\ subscriptions # {}

(* C5: the row a successful create returns is stored, is owned by the      *)
(* caller whatever owner the payload names, and no other stored row has    *)
(* its identifier.                                                         *)
C5_CreateOwnerAndId ==
    (resp.op = "create" /\ resp.kind = "OK") =>
       /\ Len(resp.rows) = 1
       /\ resp.rows[1] \in establishments
       /\ resp.rows[1].userId = resp.caller
       /\ \A r \in establishments : r.id = resp.rows[1].id => r = resp.rows[1]

C5_Witness ==
    /\ resp.op = "create"
    /\ resp.kind = "OK"
    /\ resp.caller = "user_1"
    /\ Input1.userId = "user_2"
    /\ Cardinality(establishments) = 2

(* C6: through any step that does not delete it, a stored establishment    *)
(* keeps its identifier, its owner reference (the caller that created it)  *)
(* and its creation timestamp, whatever the update payload contains.       *)
C6_ImmutableIdentity ==
    [][\A r \in establishments :
          \/ /\ resp'.op = "delete"
             /\ resp'.id = r.id
             /\ ~\E r2 \in establishments' : r2.id = r.id
          \/ \E r2 \in establishments' :
                /\ r2.id = r.id
                /\ r2.userId = r.userId
                /\ r2.userId = createdBy'[r.id]
                /\ r2.createdAt = r.createdAt]_vars

(* An update whose payload held only owner, id and creation-time keys was  *)
(* written to a row of user_1 (no schema field changed, timestamp moved).  *)
C6_Witness ==
    /\ resp.op = "update"
    /\ resp.kind = "OK"
    /\ Len(resp.rows) = 1
    /\ resp.rows[1].averageEmployees = Input1.averageEmployees
    /\ resp.rows[1].updatedAt > resp.rows[1].createdAt
    /\ resp.rows[1].userId = "user_1"
    /\ DataOwner.userId = "user_2"

(* C7: the write of a successful update on a stored row sets exactly the   *)
(* fields of the validated partial payload and the last-modified           *)
(* timestamp, keeps every other field, every other row and the             *)
(* subscriptions, and returns the updated row.                             *)
C7_UpdateFrame ==
    [][\A p \in pending \ pending' : \A old \in establishments :
          (p.op = "update" /\ resp'.kind = "OK" /\ old.id = p.id) =>
             LET new == [k \in DOMAIN old |->
                           IF k \in DOMAIN p.data THEN p.data[k]
                           ELSE IF k = "updatedAt" THEN now ELSE old[k]]
             IN /\ resp'.rows = <<new>>
                /\ establishments' = (establishments \ {old}) \cup {new}
                /\ subscriptions' = subscriptions
                /\ DOMAIN p.data = {"averageEmployees"} =>
                      \A k \in SchemaKeys \ {"averageEmployees"} :
                         resp'.rows[1][k] = old[k]]_vars

C7_Witness ==
    /\ resp.op = "update"
    /\ resp.kind = "OK"
    /\ Len(resp.rows) = 1
    /\ resp.rows[1].averageEmployees = DataEmployees.averageEmployees
    /\ resp.rows[1].name = Input1.name
    /\ resp.rows[1].updatedAt > resp.rows[1].createdAt
    /\ Cardinality(establishments) = 2
    /\ subscriptions # {}

(* C8: an update or delete that passed authentication and validation       *)
(* proceeds to its write only if the caller owns a row with that id;       *)
(* otherwise it answers one fixed NOT_FOUND error, issues no statement     *)
(* but the ownership select, and leaves both tables unchanged.             *)
C8_NotFoundNoWrite ==
    [][/\ \A p \in pending' \ pending :
             Visible(establishments, p.caller, p.id)
       /\ (/\ resp'.op \in {"update", "delete"}
           /\ pending' = pending
           /\ resp'.kind \notin {"UNAUTHORIZED", "BAD_REQUEST"}) =>
             /\ ~Visible(establishments, resp'.caller, resp'.id)
             /\ resp'.kind = "NOT_FOUND"
             /\ resp'.msg = NotFoundMsg
             /\ resp'.rows = <<>>
             /\ resp'.stmts = <<"select">>
             /\ UNCHANGED <<establishments, subscriptions>>]_vars

C8_Witness ==
    /\ resp.op = "delete"
    /\ resp.kind = "NOT_FOUND"
    /\ \E r \in establishments : r.id = resp.id /\ r.userId # resp.caller
    /\ subscriptions # {}

(* C9: a successful delete removes exactly the row with that id and the    *)
(* subscriptions referencing it; afterwards the id has no row and no       *)
(* subscription, getById on it answers NOT_FOUND and no list contains it.  *)
C9_DeleteCascades ==
    [][/\ (resp'.op = "delete" /\ resp'.kind = "OK") =>
             /\ establishments' = {r \in establishments : r.id # resp'.id}
             /\ subscriptions' =
                   {s \in subscriptions : s.establishmentId # resp'.id}
             /\ resp'.id \in deleted'
       /\ \A id \in deleted' :
             /\ ~\E r \in establishments' : r.id = id
             /\ ~\E s \in subscriptions' : s.establishmentId = id
       /\ (resp'.op = "getById" /\ resp'.caller \in Users
              /\ resp'.id \in deleted') => resp'.kind = "NOT_FOUND"
       /\ resp'.op = "list" =>
             \A r \in RowsOf(resp'.rows) : r.id \notin deleted']_vars

C9_Witness ==
    /\ resp.op = "getById"
    /\ resp.id \in deleted
    /\ resp.caller = createdBy[resp.id]
    /\ resp.kind = "NOT_FOUND"
    /\ establishments # {}
    /\ subscriptions # {}

StorageRaised == \E i \in 1..Len(sink) : sink[i].error \in StorageErrors

TelemetryThrew == \E i \in 1..Len(sink) : sink[i].threw

Supplied(k) ==
    /\ resp.op \in {"create", "update"}
    /\ resp.caller \in Users
    /\ k \in DOMAIN req

(* Every field of the payload other than k has the value of a payload      *)
(* known to be valid.                                                      *)
OnlyVaries(k) == \A j \in DOMAIN Valid0 \ {k} : j \in DOMAIN req /\ req[j] = Valid0[j]

SixDigits(v) == Len(v) = 6 /\ \A i \in 1..6 : v[i] \in Digits

PostalPattern(z) ==
    \/ Len(z) = 5 /\ \A i \in 1..5 : z[i] \in Digits
    \/ /\ Len(z) = 10
       /\ \A i \in (1..5) \cup (7..10) : z[i] \in Digits
       /\ z[6] = "-"

Headcount(v) == IsInt(v) /\ v.hi = 0 /\ v.lo <= 999999

(* The validation rule of each field, as the claims state it.              *)
RuleOk(k, v) ==
    CASE k = "name" -> Len(v) \in 1..255
      [] k = "address" -> Len(v) \in 1..500
      [] k = "city" -> Len(v) \in 1..100
      [] k = "state" -> Len(v) = 2 /\ ToUpperCase(v) \in US_STATE_CODES
      [] k = "zipCode" -> PostalPattern(v)
      [] k = "naicsCode" -> SixDigits(v)
      [] k = "industryDescription" -> Len(v) <= 500
      [] k = "averageEmployees" -> Headcount(v)

(* C12: a create or update whose payload holds a field that violates its   *)
(* rule, or a create that lacks a required field, returns a validation     *)
(* failure before any statement is issued; and a value is accepted for a   *)
(* field by update exactly when create accepts it for that field.          *)
C12_InvalidPayloadRejected ==
    /\ (/\ resp.op \in {"create", "update"}
        /\ resp.caller \in Users
        /\ \/ \E k \in DOMAIN req \cap SchemaKeys : ~RuleOk(k, req[k])
           \/ resp.op = "create" /\ ~(RequiredKeys \subseteq DOMAIN req))
          => (resp.kind = "BAD_REQUEST" /\ resp.stmts = <<>>)
    /\ \A k \in SampledKeys : \A v \in Samples(k) :
          PartialOk([j \in {k} |-> v]) <=> InputOk([Valid0 EXCEPT ![k] = v])

(* C13: a create or update whose region code is not, once uppercased, one  *)
(* of the 51 recognised codes returns a validation failure, and every      *)
(* stored establishment has a region code of that set.                     *)
C13_RegionCodeRecognized ==
    /\ (Supplied("state") /\ ToUpperCase(req.state) \notin US_STATE_CODES)
          => resp.kind = "BAD_REQUEST"
    /\ \A r \in establishments : r.state \in US_STATE_CODES

(* C14: a create or update whose average headcount is not an integer, is   *)
(* below 0 or is above 999999 returns a validation failure, and every      *)
(* stored establishment has an integer headcount in 0..999999.             *)
C14_HeadcountInRange ==
    /\ (Supplied("averageEmployees") /\ ~Headcount(req.averageEmployees))
          => resp.kind = "BAD_REQUEST"
    /\ \A r \in establishments : Headcount(r.averageEmployees)

Capital(c) ==
    IF \E j \in 1..26 : Lower[j] = c
    THEN Upper[CHOOSE j \in 1..26 : Lower[j] = c]
    ELSE c

LowercaseLetters == {Lower[j] : j \in 1..26} \cup {"ß"}

(* C15: the region code that a successful create or update stores is the   *)
(* two-character code supplied with each letter replaced by its capital,   *)
(* and no stored establishment has a region code with a lowercase letter.  *)
C15_StoredRegionUppercase ==
    /\ (Supplied("state") /\ resp.kind = "OK" /\ resp.rows # <<>>) =>
          /\ resp.rows[1] \in establishments
          /\ Len(req.state) = 2
          /\ Len(resp.rows[1].state) = 2
          /\ \A i \in 1..2 : resp.rows[1].state[i] = Capital(req.state[i])
    /\ \A r \in establishments : \A i \in 1..Len(r.state) :
          r.state[i] \notin LowercaseLetters

C15_Witness ==
    /\ resp.op = "update"
    /\ resp.kind = "OK"
    /\ req = [state |-> <<"t", "x">>]
    /\ resp.rows # <<>>
    /\ resp.rows[1].state = <<"T", "X">>
    /\ resp.rows[1] \in establishments

(* C16: create accepts a postal code exactly when it is 5 digits,          *)
(* optionally followed by a hyphen and 4 digits: any other postal code     *)
(* gives a validation failure, and a payload that is otherwise valid is    *)
(* stored with the postal code as given.                                   *)
C16_PostalCodePattern ==
    (resp.op = "create" /\ Supplied("zipCode")) =>
        /\ ~PostalPattern(req.zipCode) => resp.kind = "BAD_REQUEST"
        /\ (PostalPattern(req.zipCode) /\ OnlyVaries("zipCode")) =>
              /\ resp.kind = "OK"
              /\ resp.rows[1].zipCode = req.zipCode
              /\ resp.rows[1] \in establishments

C16_Witness ==
    /\ resp.op = "create"
    /\ resp.kind = "OK"
    /\ "zipCode" \in DOMAIN req
    /\ req.zipCode = <<"9", "0", "0", "0", "1", "-", "1", "2", "3", "4">>
    /\ resp.rows[1].zipCode = req.zipCode

(* C17: create accepts an industry classification code exactly when it is  *)
(* omitted or is 6 digits: any other code gives a validation failure, a    *)
(* 6-digit code is stored as given, and an omitted code is stored as null. *)
C17_IndustryCodeOptional ==
    (resp.op = "create" /\ resp.caller \in Users /\ req # NoReq) =>
        /\ ("naicsCode" \in DOMAIN req /\ ~SixDigits(req.naicsCode))
              => resp.kind = "BAD_REQUEST"
        /\ ("naicsCode" \in DOMAIN req /\ SixDigits(req.naicsCode)
              /\ OnlyVaries("naicsCode")) =>
              /\ resp.kind = "OK"
              /\ resp.rows[1].naicsCode = req.naicsCode
              /\ resp.rows[1] \in establishments
        /\ ("naicsCode" \notin DOMAIN req /\ OnlyVaries("naicsCode")) =>
              /\ resp.kind = "OK"
              /\ resp.rows[1].naicsCode = Null
              /\ resp.rows[1] \in establishments

C17_Witness ==
    /\ resp.op = "create"
    /\ resp.kind = "OK"
    /\ req # NoReq
    /\ "naicsCode" \notin DOMAIN req
    /\ resp.rows[1].naicsCode = Null
    /\ resp.rows[1] \in establishments


StorageDetails == StorageErrors \cup {ConstraintMsg}

(* C18: the response to a request during which the storage layer raised an *)
(* error does not depend on that error: neither its message nor any of its *)
(* data fields holds the message of a storage error.                       *)
C18_NoStorageDetail ==
    resp.msg \notin StorageDetails /\ resp.zodError \notin StorageDetails

(* The steps a request can take while every telemetry call returns: those  *)
(* of the five procedures, and those in which only storage fails.          *)
TelemetryWorks ==
    \/ \E caller \in Callers : List(caller)
    \/ \E caller \in Callers, id \in InputIds : GetById(caller, id)
    \/ \E caller \in Callers, input \in CreateInputs : Create(caller, input)
    \/ \E caller \in Callers, id \in InputIds, data \in UpdateInputs :
          UpdateCheck(caller, id, data)
    \/ \E p \in pending : UpdateWrite(p)
    \/ \E caller \in Callers, id \in InputIds : DeleteCheck(caller, id)
    \/ \E p \in pending : DeleteWrite(p)
    \/ \E caller \in Users, db \in StorageErrors : ListFault(caller, db, {})
    \/ \E caller \in Users, id \in Ids, db \in StorageErrors :
          GetByIdFault(caller, id, db, {})
    \/ \E caller \in Users, input \in CreateInputs, db \in StorageErrors :
          CreateFault(caller, input, db, {})
    \/ \E caller \in Users, id \in Ids, data \in UpdateInputs,
          db \in StorageErrors : UpdateCheckFault(caller, id, data, db, {})
    \/ \E p \in pending, db \in StorageErrors : UpdateWriteFault(p, db, {})
    \/ \E caller \in Users, id \in Ids, db \in StorageErrors :
          DeleteCheckFault(caller, id, db, {})
    \/ \E p \in pending, db \in StorageErrors : DeleteWriteFault(p, db, {})

(* C19: telemetry never affects the outcome: a step in which a telemetry   *)
(* call threw returns the same value or error, and leaves the same tables, *)
(* as a step of the same state in which every telemetry call returned.     *)
C19_TelemetryTransparent ==
    [][(\E i \in 1..Len(sink') : sink'[i].threw) => TelemetryWorks]_vars

Captured == \E i \in 1..Len(sink) : sink[i].call = "exception"

(* C20 as stated: every error a request returns (authorization, not-found, *)
(* validation or internal) has been reported as a captured exception with  *)
(* a component tag and a caller-identity tag.                              *)
C20_EveryFailureCaptured ==
    resp.kind \notin {"NONE", "OK"} =>
        \E i \in 1..Len(sink) :
            /\ sink[i].call = "exception"
            /\ {"component", "userId"} \subseteq sink[i].tags

(* C20: every internal failure a handler's catch block returns (the        *)
(* "Failed to ..." errors) has first been reported as a captured exception *)
(* naming the procedure as component, tagged with the caller identity by   *)
(* list and create and with the establishment id by getById, update and    *)
(* delete; authorization, not-found and validation failures are returned   *)
(* without a captured exception, except that the context builder has       *)
(* captured the identity provider's error when that is why the request is  *)
(* unauthenticated.                                                        *)
C20_InternalFailuresCaptured ==
    /\ (resp.kind = "INTERNAL_SERVER_ERROR" /\ resp.msg # TelemetryMsg) =>
          /\ Len(sink) >= 1
          /\ LET c == sink[Len(sink)] IN
             /\ c.call = "exception" /\ ~c.threw
             /\ c.label =
                   CASE resp.op = "list" -> "establishmentRouter.list"
                     [] resp.op = "getById" -> "establishmentRouter.getById"
                     [] resp.op = "create" -> "establishmentRouter.create"
                     [] resp.op = "update" -> "establishmentRouter.update"
                     [] resp.op = "delete" -> "establishmentRouter.delete"
             /\ c.error = resp.zodError
             /\ c.tags = IF resp.op \in {"list", "create"}
                         THEN {"component", "userId"}
                         ELSE {"component", "establishmentId"}
    /\ resp.kind \in {"UNAUTHORIZED", "NOT_FOUND", "BAD_REQUEST"} =>
          \A i \in 1..Len(sink) :
             sink[i].call = "exception" =>
                sink[i].label = "trpc-context" /\ resp.caller = ProviderThrows

C20_Witness ==
    /\ resp.op = "getById"
    /\ resp.kind = "INTERNAL_SERVER_ERROR"
    /\ resp.msg = "Failed to fetch establishment"
    /\ Captured /\ StorageRaised

(* C25: when the owner's delete lands between the ownership select and the *)
(* write of an update of the same establishment, the update's write finds  *)
(* no row: it answers no not-found error, a payload within the validation  *)
(* rules is acknowledged as success with no row, and the row stays         *)
(* deleted.                                                                *)
C25_UpdateAfterDelete ==
    (resp.op = "update" /\ resp.stmts = <<"update">> /\ resp.id \in deleted) =>
        /\ resp.kind # "NOT_FOUND"
        /\ resp.kind = "OK" => resp.rows = <<>>
        /\ (\A k \in DOMAIN req \cap SchemaKeys : RuleOk(k, req[k]))
              => resp.kind = "OK"
        /\ ~\E r \in establishments : r.id = resp.id

C25_Witness ==
    /\ resp.op = "update"
    /\ resp.stmts = <<"update">>
    /\ resp.id \in deleted
    /\ resp.caller = createdBy[resp.id]
    /\ resp.kind = "OK"
    /\ resp.rows = <<>>
    /\ req = DataEmployees
    /\ ~\E r \in establishments : r.id = resp.id

(* C28: every subscription's parent reference names an establishment that *)
(* is stored.                                                              *)
C28_NoOrphanSubscription ==
    \A s \in subscriptions : \E r \in establishments : r.id = s.establishmentId

C28_Witness ==
    /\ resp.op = "delete"
    /\ resp.kind = "OK"
    /\ subscriptions # {}
    /\ pending # {}
    /\ \A s \in subscriptions : s.establishmentId # resp.id

(* C29: a request without caller identity is answered with the             *)
(* authorization failure whatever its payload and id: never with a         *)
(* validation failure or a not-found error.                                *)
C29_AuthBeforeValidation ==
    (resp.op # "none" /\ resp.caller = NoUser) =>
        /\ resp.kind \notin {"BAD_REQUEST", "NOT_FOUND"}
        /\ resp.kind = "UNAUTHORIZED"
        /\ resp.msg = "You must be signed in to perform this action"

C29_Witness ==
    /\ resp.op = "create"
    /\ resp.caller = NoUser
    /\ req = InputBadZip
    /\ resp.kind = "UNAUTHORIZED"

(* C30: a request during which the identity provider raises is answered    *)
(* with the authorization failure without any storage statement, and no    *)
(* row or pending write ever carries an identity other than a signed-in    *)
(* caller's.                                                               *)
C30_ProviderFailureFailsClosed ==
    /\ resp.caller = ProviderThrows =>
          /\ resp.kind = "UNAUTHORIZED"
          /\ resp.stmts = <<>>
          /\ resp.rows = <<>>
    /\ \A r \in establishments : r.userId \in Users
    /\ \A p \in pending : p.caller \in Users

C30_Witness ==
    /\ resp.caller = ProviderThrows
    /\ resp.op = "create"
    /\ req = Input1
    /\ resp.kind = "UNAUTHORIZED"
    /\ Captured
    /\ establishments # {}

(* C26: concurrent updates of one establishment by its owner all return    *)
(* success with the updated row, and the stored row is last-write-wins per *)
(* field: a field only one update supplies holds that update's value once  *)
(* it has written, and a field both supply holds the value of the update   *)
(* that wrote last.                                                        *)
C26_LastWriteWins ==
    /\ \A r \in establishments :
          LET first == r.city = DataFirst.city
              second == r.zipCode = DataSecond.zipCode
          IN /\ r.city \in {Input1.city, DataFirst.city}
             /\ r.zipCode \in {Input1.zipCode, DataSecond.zipCode}
             /\ (~first /\ ~second) =>
                   r.averageEmployees = Input1.averageEmployees
             /\ (first /\ ~second) =>
                   r.averageEmployees = DataFirst.averageEmployees
             /\ (second /\ ~first) =>
                   r.averageEmployees = DataSecond.averageEmployees
             /\ (first /\ second) =>
                   r.averageEmployees \in {DataFirst.averageEmployees,
                                           DataSecond.averageEmployees}
    /\ (resp.op = "update" /\ resp.stmts = <<"update">>) =>
          /\ resp.kind = "OK"
          /\ Len(resp.rows) = 1
          /\ resp.rows[1] \in establishments
          /\ resp.rows[1].id = resp.id
          /\ \A k \in DOMAIN req : resp.rows[1][k] = req[k]

C26_Witness ==
    /\ resp.op = "update"
    /\ resp.kind = "OK"
    /\ req = DataSecond
    /\ Len(resp.rows) = 1
    /\ resp.rows[1].city = DataFirst.city
    /\ resp.rows[1].zipCode = DataSecond.zipCode
    /\ resp.rows[1].averageEmployees = DataSecond.averageEmployees
    /\ \E p \in pending : p.id = resp.id /\ p.raw = DataFirst

(* C22: selection-state round trip: once the provider has been mounted     *)
(* anew and has rehydrated after calls of the setters, the in-memory year  *)
(* is the last year set and the in-memory establishment id is the last id  *)
(* set, which is no selection when the last call was                       *)
(* setEstablishmentId(null).                                               *)
C22_SelectionRoundTrip ==
    (client.isHydrated /\ client.reloaded) =>
        /\ client.lastYear.set =>
              client.year = JSNumber(client.lastYear.value)
        /\ client.lastId.set => client.establishmentId = client.lastId.value

C22_Witness ==
    /\ client.isHydrated /\ client.reloaded
    /\ client.lastYear = WasSet(2026) /\ client.year = JSNumber(2026)
    /\ client.lastId = WasSet(Null) /\ client.establishmentId = Null

(* C23: when the year persisted at startup is present but parseInt finds   *)
(* no integer in it, the rehydrated provider has the current calendar year *)
(* in memory (until setYear is called) and has still loaded the persisted  *)
(* establishment id (until setEstablishmentId is called).                  *)
C23_UnparsableYearDiscarded ==
    (/\ client.isHydrated
     /\ client.startup.year # Null
     /\ ParseInt(client.startup.year).nan) =>
        /\ ~client.touchedYear => client.year = JSNumber(CurrentYear)
        /\ (~client.touchedId /\ Truthy(client.startup.id)) =>
              client.establishmentId = client.startup.id

C23_Witness ==
    /\ client.isHydrated
    /\ client.startup = [id |-> S_uuid1, year |-> <<"a", "b", "c">>]
    /\ ~client.touchedYear /\ ~client.touchedId
    /\ client.year = JSNumber(CurrentYear)
    /\ client.establishmentId = S_uuid1

(* C27: rehydration gate: whenever the provider's children are rendered,   *)
(* rehydration has completed, and until a setter is called the in-memory   *)
(* year and establishment id are the ones persisted at startup, or the     *)
(* defaults where none (or an unparsable year) was persisted.              *)
C27_RehydrationGate ==
    client.rendered =>
        /\ client.isHydrated
        /\ ~client.touchedYear =>
              client.year =
                  IF Truthy(client.startup.year)
                     /\ ~ParseInt(client.startup.year).nan
                  THEN ParseInt(client.startup.year)
                  ELSE JSNumber(CurrentYear)
        /\ ~client.touchedId =>
              client.establishmentId =
                  IF Truthy(client.startup.id) THEN client.startup.id
                  ELSE Null

C27_Witness ==
    /\ client.rendered
    /\ ~client.touchedYear /\ ~client.touchedId
    /\ client.startup = [id |-> S_uuid1, year |-> toString(2026)]
    /\ client.year = JSNumber(2026)
    /\ client.establishmentId = S_uuid1

(* C21: no failed request is re-issued automatically: since the user asked *)
(* for it, no request was sent again by the client itself.                 *)
C21_NoAutomaticRetry == client.request.auto = 0

(* C21 as amended: a failed query is re-issued by the client once: its     *)
(* failure is final only after the re-issued request has failed too, and   *)
(* it is never re-issued twice. A failed mutation is not re-issued.        *)
C21_FailedQueryRetriedOnce ==
    LET q == client.request IN
    /\ q.auto <= 1
    /\ (q.kind = "queries" /\ q.status = "error") => q.auto = 1
    /\ q.status = "retrying" => (q.kind = "queries" /\ q.auto = 0)
    /\ q.kind = "mutations" => q.auto = 0

C21_Witness ==
    /\ client.request.kind = "queries"
    /\ client.request.status = "error"
    /\ client.request.auto = 1
    /\ resp = NoResp

(* C24: the add form's schema accepts the submitted values exactly when    *)
(* the server's create validation accepts them as the form sends them, and *)
(* no create sent by the form is answered with a validation failure.       *)
C24_FormMatchesServer ==
    /\ client.form.tried =>
          (client.form.accepted <=> InputOk(FormOut(client.form.values)))
    /\ (client.request.kind = "mutations" /\ resp # NoResp) =>
          resp.kind # "BAD_REQUEST"

====
